---- MODULE Spec2Model ----
(***************************************************************************)
(* LDMR (link-disjoint multipath routing) over a NetworkTopology:          *)
(* the topology (nodes, links, per-node neighbour sets), the Dijkstra      *)
(* kernel and LDMRAlgorithm.run_ldmr_algorithm.                            *)
(* Node ids are modelled as integers; their order stands for the string    *)
(* order the code uses in tuple(sorted(..)), min/max and heap tie-breaks.  *)
(***************************************************************************)
EXTENDS Integers, Sequences, FiniteSets, TLC

\* ---------------------------------------------------------------- bounds
NumNodes == 4
MaxDelay == 3
MaxDemands == 2
MaxBandwidth == 2
MaxK == 2
r2 == 2
r3 == 3

\* ------------------------------------------------------ program constants
r1 == 1
Ne_th == 1

NodeIds == 1..NumNodes
\* an id that is never a node of the topology
UnknownId == NumNodes + 1
Endpoints == NodeIds \cup {UnknownId}
AllLinkIds == {<<a, b>> : a \in NodeIds, b \in NodeIds} \cap {p \in NodeIds \X NodeIds : p[1] < p[2]}
Delays == {1, MaxDelay}

\* --------------------------------------------------------- topology_base
\* mutant: the key is the pair as given
LinkId_AsGiven(a, b) == <<a, b>>

\* Link.__init__ / Link.id: the smaller id first
LinkId(a, b) == IF a <= b THEN <<a, b>> ELSE <<b, a>>

\* Link.__init__: weight starts as the delay, usage_count 0, is_active True
NewLink(delay) == [delay |-> delay, weight |-> delay, usage_count |-> 0, is_active |-> TRUE]

\* None, and a reference that is not None: the empty and the one-element
\* sequence
None == <<>>
Some(x) == <<x>>

\* np.inf, the weight-matrix entry of two nodes without an active link
Inf == -1

\* nx.Graph(): its node set and its edges, each with the 'weight' attribute
EmptyGraph == [nodes |-> {}, edges |-> <<>>]

\* nx.Graph.add_node
graph_add_node(g, n) == [g EXCEPT !.nodes = @ \cup {n}]

\* nx.Graph.add_edge(a, b, weight=w)
graph_add_edge(g, a, b, w) ==
  [nodes |-> g.nodes \cup {a, b},
   edges |-> [id \in DOMAIN g.edges \cup {LinkId(a, b)} |->
                IF id = LinkId(a, b) THEN w ELSE g.edges[id]]]

\* nx.Graph.remove_edge, guarded by has_edge
graph_remove_edge(g, a, b) ==
  [g EXCEPT !.edges = [id \in DOMAIN g.edges \ {LinkId(a, b)} |-> g.edges[id]]]

\* nx.is_connected: every node is reached from any one node
RECURSIVE GraphReach(_, _)
GraphReach(g, S) ==
  LET S2 == S \cup {m \in g.nodes : \E n \in S : LinkId(n, m) \in DOMAIN g.edges}
  IN IF S2 = S THEN S ELSE GraphReach(g, S2)

is_connected(g) == \A n \in g.nodes : GraphReach(g, {n}) = g.nodes

\* NetworkTopology.__init__ followed by add_node for every id of ns, in
\* order: each node a fresh Node without neighbours
EmptyTopology(ns) ==
  [nodes |-> ns, links |-> <<>>, neighbors |-> [n \in ns |-> {}],
   graph |-> [nodes |-> ns, edges |-> <<>>],
   _adjacency_matrix |-> None, _weight_matrix |-> None]

\* NetworkTopology.add_node(Node(n)): the Node stored under n is the new one
add_node(t, n) ==
  [t EXCEPT !.nodes = @ \cup {n},
            !.neighbors = [m \in t.nodes \cup {n} |-> IF m = n THEN {} ELSE t.neighbors[m]],
            !.graph = graph_add_node(@, n),
            !._adjacency_matrix = None,
            !._weight_matrix = None]

has_link(t, a, b) == LinkId(a, b) \in DOMAIN t.links

get_link(t, a, b) == t.links[LinkId(a, b)]

get_neighbors(t, n) == IF n \in t.nodes THEN t.neighbors[n] ELSE {}

\* NetworkTopology.add_link, for endpoints that are nodes of t
add_link(t, a, b, link) ==
  [t EXCEPT !.links = [id \in DOMAIN t.links \cup {LinkId(a, b)} |->
                         IF id = LinkId(a, b) THEN link ELSE t.links[id]],
            !.neighbors = [n \in t.nodes |->
                         IF n = a /\ n = b THEN t.neighbors[n] \cup {a}
                         ELSE IF n = a THEN t.neighbors[n] \cup {b}
                         ELSE IF n = b THEN t.neighbors[n] \cup {a}
                         ELSE t.neighbors[n]],
            !.graph = graph_add_edge(@, a, b, link.weight),
            !._adjacency_matrix = None,
            !._weight_matrix = None]

\* mutant: only the first endpoint forgets its neighbour
remove_link_OneSided(t, a, b) ==
  [t EXCEPT !.links = [id \in DOMAIN t.links \ {LinkId(a, b)} |-> t.links[id]],
            !.neighbors = [n \in t.nodes |->
                         IF n = a THEN t.neighbors[n] \ {b} ELSE t.neighbors[n]],
            !.graph = graph_remove_edge(@, a, b),
            !._adjacency_matrix = None,
            !._weight_matrix = None]

\* NetworkTopology.remove_link
remove_link(t, a, b) ==
  [t EXCEPT !.links = [id \in DOMAIN t.links \ {LinkId(a, b)} |-> t.links[id]],
            !.neighbors = [n \in t.nodes |->
                         IF n = a /\ n = b THEN t.neighbors[n] \ {a}
                         ELSE IF n = a THEN t.neighbors[n] \ {b}
                         ELSE IF n = b THEN t.neighbors[n] \ {a}
                         ELSE t.neighbors[n]],
            !.graph = graph_remove_edge(@, a, b),
            !._adjacency_matrix = None,
            !._weight_matrix = None]

\* NetworkTopology.update_link_weights
update_link_weights(t, weight_updates) ==
  [t EXCEPT !.links = [id \in DOMAIN t.links |->
                         IF id \in DOMAIN weight_updates
                         THEN [t.links[id] EXCEPT !.weight = weight_updates[id]]
                         ELSE t.links[id]],
            !.graph = [@ EXCEPT !.edges = [id \in DOMAIN @ |->
                         IF id \in DOMAIN weight_updates /\ id \in DOMAIN t.links
                         THEN weight_updates[id] ELSE @[id]]],
            !._adjacency_matrix = None,
            !._weight_matrix = None]

\* NetworkTopology.copy: fresh nodes (empty neighbour sets), then every link
\* re-added with its fields copied
copy(t) ==
  [nodes |-> t.nodes,
   links |-> t.links,
   neighbors |-> [n \in t.nodes |->
                    {m \in t.nodes : LinkId(n, m) \in DOMAIN t.links}],
   graph |-> [nodes |-> t.nodes, edges |-> [id \in DOMAIN t.links |-> t.links[id].weight]],
   _adjacency_matrix |-> None,
   _weight_matrix |-> None]

\* mutant: the copy holds the Link objects of the original
CopyShares_LinkObjects(t) == [links |-> DOMAIN t.links, nodes |-> {}]

\* which Link and Node objects of the original the copy holds too: copy()
\* makes a new Node for every node and a new Link for every link
CopyShares(t) == [links |-> {}, nodes |-> {}]

\* mutant: the endpoint check comes after the link is stored
try_add_link_LateCheck(t, a, b, link) ==
  [raised |-> a \notin t.nodes \/ b \notin t.nodes,
   topology |-> add_link(t, a, b, link)]

\* NetworkTopology.add_link with its endpoint check: whether it raised
\* ValueError, and the topology after the call
try_add_link(t, a, b, link) ==
  IF a \notin t.nodes \/ b \notin t.nodes
  THEN [raised |-> TRUE, topology |-> t]
  ELSE [raised |-> FALSE, topology |-> add_link(t, a, b, link)]

\* a direct write of a Link's is_active attribute, if the link exists
write_is_active(t, a, b, flag) ==
  IF has_link(t, a, b)
  THEN [t EXCEPT !.links[LinkId(a, b)].is_active = flag]
  ELSE t

\* the matrix get_adjacency_matrix computes when none is cached; the entry
\* of a pair of nodes stands for the entry at their two indices
AdjacencyMatrixOf(t) ==
  [p \in t.nodes \X t.nodes |-> IF p[1] # p[2] /\ has_link(t, p[1], p[2]) THEN 1 ELSE 0]

\* the matrix get_weight_matrix computes when none is cached
WeightMatrixOf(t) ==
  [p \in t.nodes \X t.nodes |->
     IF p[1] = p[2] THEN 0
     ELSE IF has_link(t, p[1], p[2]) /\ get_link(t, p[1], p[2]).is_active
          THEN get_link(t, p[1], p[2]).weight
          ELSE Inf]

\* NetworkTopology.get_adjacency_matrix: the topology after the call; the
\* matrix returned is a copy of its _adjacency_matrix
get_adjacency_matrix(t) ==
  IF t._adjacency_matrix = None THEN [t EXCEPT !._adjacency_matrix = Some(AdjacencyMatrixOf(t))] ELSE t

\* NetworkTopology.get_weight_matrix: the topology after the call; the
\* matrix returned is a copy of its _weight_matrix
get_weight_matrix(t) ==
  IF t._weight_matrix = None THEN [t EXCEPT !._weight_matrix = Some(WeightMatrixOf(t))] ELSE t

\* NetworkTopology.get_statistics; every node of the model is a satellite,
\* and average_degree is kept as the fraction numerator / denominator
get_statistics(t) ==
  [total_nodes |-> Cardinality(t.nodes),
   satellites |-> Cardinality(t.nodes),
   ground_stations |-> 0,
   total_links |-> Cardinality(DOMAIN t.links),
   average_degree |-> IF t.nodes # {}
                      THEN <<2 * Cardinality(DOMAIN t.links), Cardinality(t.nodes)>>
                      ELSE <<0, 1>>,
   is_connected |-> IF t.nodes # {} THEN is_connected(t.graph) ELSE FALSE]

\* ------------------------------------------------------- basic_algorithms
\* PathInfo(nodes, links, total_delay); links are (node1, node2) in the order
\* the path traverses them
PathInfo(ns, ls, d) == [nodes |-> ns, links |-> ls, total_delay |-> d]

\* the None a path search returns
NoPath == [nodes |-> <<>>, links |-> <<>>, total_delay |-> 0]

\* heapq.heappop on (distance, node_id) tuples: smallest distance, then id
HeapTop(pq) ==
  CHOOSE e \in pq : \A f \in pq : e[1] < f[1] \/ (e[1] = f[1] /\ e[2] <= f[2])

\* mutant: every edge costs one hop
EdgeWeight_Hops(link, weight_type) == 1

\* the edge cost find_shortest_path reads for weight_type
EdgeWeight(link, weight_type) ==
  IF weight_type = "delay" THEN link.delay
  ELSE IF weight_type = "weight" THEN link.weight
  ELSE IF weight_type = "hops" THEN 1
  ELSE link.delay

\* mutant: a distance once set is never lowered
Relaxed_FirstSeen(t, cur, cur_dist, weight_type, excluded_links, visited, dist) ==
  {n \in get_neighbors(t, cur) :
     /\ n \notin visited
     /\ LinkId(cur, n) \notin excluded_links
     /\ has_link(t, cur, n)
     /\ get_link(t, cur, n).is_active
     /\ n \notin DOMAIN dist}

\* neighbours of cur whose tentative distance the inner for-loop lowers;
\* dist holds the finite entries of `distances`
Relaxed(t, cur, cur_dist, weight_type, excluded_links, visited, dist) ==
  {n \in get_neighbors(t, cur) :
     /\ n \notin visited
     /\ LinkId(cur, n) \notin excluded_links
     /\ has_link(t, cur, n)
     /\ get_link(t, cur, n).is_active
     /\ \/ n \notin DOMAIN dist
        \/ cur_dist + EdgeWeight(get_link(t, cur, n), weight_type) < dist[n]}

\* the while-pq loop of find_shortest_path; returns [dist, pred]
RECURSIVE DijkstraLoop(_, _, _, _, _, _, _, _)
DijkstraLoop(t, destination, weight_type, excluded_links, pq, visited, dist, pred) ==
  IF pq = {} THEN [dist |-> dist, pred |-> pred]
  ELSE
    LET top == HeapTop(pq)
        cur == top[2]
        rest == pq \ {top}
    IN IF cur \in visited
       THEN DijkstraLoop(t, destination, weight_type, excluded_links, rest, visited, dist, pred)
       ELSE IF cur = destination THEN [dist |-> dist, pred |-> pred]
       ELSE
         LET vis == visited \cup {cur}
             upd == Relaxed(t, cur, top[1], weight_type, excluded_links, vis, dist)
             nd(n) == top[1] + EdgeWeight(get_link(t, cur, n), weight_type)
             dist2 == [n \in DOMAIN dist \cup upd |-> IF n \in upd THEN nd(n) ELSE dist[n]]
             pred2 == [n \in DOMAIN pred \cup upd |-> IF n \in upd THEN cur ELSE pred[n]]
             pq2 == rest \cup {<<nd(n), n>> : n \in upd}
         IN DijkstraLoop(t, destination, weight_type, excluded_links, pq2, vis, dist2, pred2)

\* the while-loop of _reconstruct_path: the nodes from `current` back to the
\* node that has no predecessor
RECURSIVE WalkBack(_, _)
WalkBack(pred, current) ==
  IF current \in DOMAIN pred
  THEN <<current>> \o WalkBack(pred, pred[current])
  ELSE <<current>>

Reversed(seq) == [i \in 1..Len(seq) |-> seq[Len(seq) + 1 - i]]

\* mutant: the walked-back list is returned without reversing it
_reconstruct_path_NotReversed(pred, source, destination) ==
  LET path == WalkBack(pred, destination)
  IN IF path[Len(path)] # source THEN <<>> ELSE path

\* DijkstraPathFinder._reconstruct_path; <<>> is its None
_reconstruct_path(pred, source, destination) ==
  LET path == WalkBack(pred, destination)
  IN IF path[Len(path)] # source THEN <<>> ELSE Reversed(path)

\* DijkstraPathFinder._create_path_info
RECURSIVE PathLinks(_, _, _)
PathLinks(t, node_path, i) ==
  IF i >= Len(node_path) THEN <<>>
  ELSE (IF has_link(t, node_path[i], node_path[i + 1])
        THEN <<<<node_path[i], node_path[i + 1]>>>> ELSE <<>>)
       \o PathLinks(t, node_path, i + 1)

\* mutant: the weights of the links are summed
RECURSIVE SumDelay_Weight(_, _, _)
SumDelay_Weight(t, ls, i) ==
  IF i > Len(ls) THEN 0
  ELSE get_link(t, ls[i][1], ls[i][2]).weight + SumDelay_Weight(t, ls, i + 1)

RECURSIVE SumDelay(_, _, _)
SumDelay(t, ls, i) ==
  IF i > Len(ls) THEN 0
  ELSE get_link(t, ls[i][1], ls[i][2]).delay + SumDelay(t, ls, i + 1)

_create_path_info(t, node_path) ==
  IF Len(node_path) < 2 THEN PathInfo(node_path, <<>>, 0)
  ELSE LET ls == PathLinks(t, node_path, 1)
       IN PathInfo(node_path, ls, SumDelay(t, ls, 1))

\* DijkstraPathFinder.find_shortest_path
find_shortest_path(t, source, destination, weight_type, excluded_links) ==
  IF source \notin t.nodes \/ destination \notin t.nodes THEN NoPath
  ELSE IF source = destination THEN PathInfo(<<source>>, <<>>, 0)
  ELSE
    LET st == DijkstraLoop(t, destination, weight_type, excluded_links,
                           {<<0, source>>}, {}, (source :> 0), <<>>)
    IN IF destination \notin DOMAIN st.dist THEN NoPath
       ELSE LET path == _reconstruct_path(st.pred, source, destination)
            IN IF path = <<>> THEN NoPath
               ELSE _create_path_info(t, path)

\* the links of find_k_shortest_paths' spur search at index i that are
\* excluded: the next edge of every accepted path sharing the root
SpurExcluded(ps, root_path, i) ==
  {LinkId(ps[j].nodes[i], ps[j].nodes[i + 1]) :
     j \in {x \in 1..Len(ps) : /\ Len(ps[x].nodes) >= i
                               /\ SubSeq(ps[x].nodes, 1, i) = root_path
                               /\ i < Len(ps[x].nodes)}}

\* candidates.sort(key=total_delay): stable, ascending
RECURSIVE InsertCandidate(_, _)
InsertCandidate(sorted, c) ==
  IF sorted = <<>> THEN <<c>>
  ELSE IF Head(sorted).total_delay <= c.total_delay
       THEN <<Head(sorted)>> \o InsertCandidate(Tail(sorted), c)
       ELSE <<c>> \o sorted

RECURSIVE SortCandidates(_, _, _)
SortCandidates(cs, i, acc) ==
  IF i > Len(cs) THEN acc
  ELSE SortCandidates(cs, i + 1, InsertCandidate(acc, cs[i]))

\* the inner for-loop of find_k_shortest_paths over the spur index i;
\* returns the candidate list
RECURSIVE SpurLoop(_, _, _, _, _, _, _)
SpurLoop(t, destination, weight_type, ps, candidates, previous_path, i) ==
  IF i > Len(previous_path.nodes) - 1 THEN candidates
  ELSE
    LET spur_node == previous_path.nodes[i]
        root_path == SubSeq(previous_path.nodes, 1, i)
        spur_path == find_shortest_path(t, spur_node, destination, weight_type,
                                        SpurExcluded(ps, root_path, i))
        total_nodes == SubSeq(root_path, 1, i - 1) \o spur_path.nodes
        total_links == PathLinks(t, total_nodes, 1)
        candidate_path == PathInfo(total_nodes, total_links, SumDelay(t, total_links, 1))
        is_duplicate == \/ \E j \in 1..Len(ps) : ps[j].nodes = total_nodes
                        \/ \E j \in 1..Len(candidates) : candidates[j].nodes = total_nodes
    IN IF spur_path # NoPath /\ Len(spur_path.nodes) > 1 /\ ~is_duplicate
       THEN SpurLoop(t, destination, weight_type, ps, Append(candidates, candidate_path),
                     previous_path, i + 1)
       ELSE SpurLoop(t, destination, weight_type, ps, candidates, previous_path, i + 1)

\* the outer for-loop of find_k_shortest_paths (for path_idx in range(1, k))
RECURSIVE KLoop(_, _, _, _, _, _, _)
KLoop(t, destination, weight_type, kk, ps, candidates, path_idx) ==
  IF path_idx >= kk THEN ps
  ELSE
    LET cs == SortCandidates(SpurLoop(t, destination, weight_type, ps, candidates,
                                      ps[Len(ps)], 1), 1, <<>>)
    IN IF cs = <<>> THEN ps
       ELSE KLoop(t, destination, weight_type, kk, Append(ps, Head(cs)), Tail(cs), path_idx + 1)

\* DijkstraPathFinder.find_k_shortest_paths
find_k_shortest_paths(t, source, destination, kk, weight_type) ==
  IF kk <= 0 THEN <<>>
  ELSE LET first_path == find_shortest_path(t, source, destination, weight_type, {})
       IN IF first_path = NoPath THEN <<>>
          ELSE KLoop(t, destination, weight_type, kk, <<first_path>>, <<>>, 1)

\* -------------------------------------------------- LinkDisjointPathFinder
\* mutant: the links of a found path are not added to the excluded set
ExcludeLinksOf_Nothing(excluded_links, path) == excluded_links

\* the excluded set after a found path: its links by tuple(sorted(link))
ExcludeLinksOf(excluded_links, path) ==
  excluded_links \cup {LinkId(path.links[i][1], path.links[i][2]) : i \in 1..Len(path.links)}

\* the for-loop of find_link_disjoint_paths (for i in range(k))
RECURSIVE DisjointLoop(_, _, _, _, _, _, _, _)
DisjointLoop(t, source, destination, kk, weight_type, ps, excluded_links, i) ==
  IF i >= kk THEN ps
  ELSE LET path == find_shortest_path(t, source, destination, weight_type, excluded_links)
       IN IF path # NoPath
          THEN DisjointLoop(t, source, destination, kk, weight_type, Append(ps, path),
                            ExcludeLinksOf(excluded_links, path), i + 1)
          ELSE ps

\* LinkDisjointPathFinder.find_link_disjoint_paths
find_link_disjoint_paths(t, source, destination, kk, weight_type) ==
  DisjointLoop(t, source, destination, kk, weight_type, <<>>, {}, 0)

\* the scan of verify_link_disjoint from link j of path i on, all_links the
\* canonical keys seen so far
RECURSIVE VerifyScan(_, _, _, _)
VerifyScan(ps, all_links, i, j) ==
  IF i > Len(ps) THEN TRUE
  ELSE IF j > Len(ps[i].links) THEN VerifyScan(ps, all_links, i + 1, 1)
  ELSE LET link_id == LinkId(ps[i].links[j][1], ps[i].links[j][2])
       IN IF link_id \in all_links THEN FALSE
          ELSE VerifyScan(ps, all_links \cup {link_id}, i, j + 1)

\* LinkDisjointPathFinder.verify_link_disjoint
verify_link_disjoint(ps) == VerifyScan(ps, {}, 1, 1)

\* ------------------------------------------------------- baseline SPF/ECMP
AlgorithmResult(name, demand, ps, success, meta) ==
  [algorithm_name |-> name, demand |-> demand, paths |-> ps, success |-> success,
   metadata |-> meta]

\* SPFAlgorithm.calculate_paths_for_demand
SPF_calculate_paths_for_demand(t, demand, weight_type) ==
  LET path == find_shortest_path(t, demand.source_id, demand.destination_id, weight_type, {})
  IN IF path # NoPath
     THEN AlgorithmResult("SPF", demand, <<path>>, TRUE, [weight_type |-> weight_type])
     ELSE AlgorithmResult("SPF", demand, <<>>, FALSE, [weight_type |-> weight_type])

\* ECMPAlgorithm._get_path_cost
_get_path_cost(path, weight_type) ==
  IF weight_type = "delay" THEN path.total_delay
  ELSE IF weight_type = "hops" THEN Len(path.links)
  ELSE path.total_delay

SeqMin(f, n) == CHOOSE m \in {f[i] : i \in 1..n} : \A i \in 1..n : m <= f[i]

RECURSIVE FilterSeq(_, _, _)
FilterSeq(seq, keep, i) ==
  IF i > Len(seq) THEN <<>>
  ELSE (IF keep[i] THEN <<seq[i]>> ELSE <<>>) \o FilterSeq(seq, keep, i + 1)

\* ECMPAlgorithm._filter_equal_cost_paths: cost <= min_cost * (1 + tolerance),
\* the tolerance in percent
_filter_equal_cost_paths(ps, weight_type, tolerance_pct) ==
  IF ps = <<>> THEN <<>>
  ELSE LET cost == [i \in 1..Len(ps) |-> _get_path_cost(ps[i], weight_type)]
           min_cost == SeqMin(cost, Len(ps))
       IN FilterSeq(ps, [i \in 1..Len(ps) |-> 100 * cost[i] <= min_cost * (100 + tolerance_pct)], 1)

\* ECMPAlgorithm.calculate_paths_for_demand
ECMP_calculate_paths_for_demand(t, demand, weight_type, max_paths, tolerance_pct) ==
  LET k_paths == find_k_shortest_paths(t, demand.source_id, demand.destination_id,
                                       max_paths, weight_type)
      meta == [weight_type |-> weight_type, max_paths |-> max_paths]
  IN IF k_paths # <<>>
     THEN AlgorithmResult("ECMP", demand,
                          _filter_equal_cost_paths(k_paths, weight_type, tolerance_pct),
                          TRUE, meta)
     ELSE AlgorithmResult("ECMP", demand, <<>>, FALSE, [weight_type |-> weight_type])

\* no run_algorithm call was made yet
NoRun ==
  [algorithm |-> "none", weight_type |-> "delay", traffic_demands |-> <<>>,
   results |-> <<>>, finished |-> FALSE, raised |-> FALSE, returned |-> <<>>]

\* -------------------------------------------------------- ldmr_algorithms
VARIABLES
  topology,          \* the NetworkTopology handed to the algorithms
  config,            \* LDMRConfig (K)
  pc,                \* position inside run_ldmr_algorithm
  traffic_demands,   \* the demand list handed to run_ldmr_algorithm
  node_pairs,        \* Phase 1: pairs not yet given a seed path
  shortest_paths,    \* Phase 1 result: pair -> PathInfo
  link_usage_count,  \* LDMRAlgorithm.link_usage_count
  sorted_demands,    \* Phase 2: demands in processing order
  results,           \* the MultiPathResult list built so far
  paths,             \* paths of the demand being processed
  k,                 \* loop index of the backup-path loop
  entry_topology,    \* the topology as it was when the run was entered
  runs,              \* completed runs: [topology, demands, results] of each
  baseline,          \* the AlgorithmResult of the last SPF / ECMP call
  last_op,           \* the last topology operation called
  last_target,       \* the object it was called on: "original" or "clone"
  clone,             \* the topology copy() returned, None before the call
  shared,            \* the Link and Node objects the two topologies share
  ops,               \* the number of calls made on the two topologies
  call,              \* the last path-finder call: its arguments and result
  manager,           \* the TopologyManager and its last get_snapshot_at_time
  runner             \* the last run_algorithm call of a baseline: arguments, outcome

\* the state of the clone and of the calls made on the two objects
obj_vars == <<last_target, clone, shared, ops, call, manager, runner>>

vars == <<topology, config, pc, traffic_demands, node_pairs, shortest_paths,
          link_usage_count, sorted_demands, results, paths, k, entry_topology,
          runs, baseline, last_op, obj_vars>>

\* what a run of run_ldmr_algorithm reads and writes besides the topology
run_vars == <<traffic_demands, node_pairs, shortest_paths, link_usage_count,
              sorted_demands, results, paths, k, entry_topology, runs>>

TrafficDemand(s, d, bw) == [source_id |-> s, destination_id |-> d, bandwidth |-> bw]

\* the (source, destination) pairs the demands are drawn from: two pairs of
\* nodes with a common destination, and a pair with an unknown endpoint
DemandPairs == {<<1, NumNodes>>, <<2, NumNodes>>, <<1, UnknownId>>}

Demands == {TrafficDemand(p[1], p[2], bw) : p \in DemandPairs, bw \in 1..MaxBandwidth}

\* mutant: the success argument is dropped and the field's default stays
MultiPathResult_DefaultSuccess(s, d, ps, demand, success) ==
  [source_id |-> s, destination_id |-> d, paths |-> ps, demand |-> demand, success |-> TRUE]

\* the LDMRConfig dataclass: the fields are stored as given
LDMRConfig(K, lower1, lower2, upper) ==
  [K |-> K, r1 |-> lower1, r2 |-> lower2, r3 |-> upper]

\* LDMRAlgorithm.__init__: whether it raised, and the config it keeps
LDMRAlgorithm_init(cfg) == [raised |-> FALSE, config |-> cfg]

\* the MultiPathResult dataclass
MultiPathResult(s, d, ps, demand, success) ==
  [source_id |-> s, destination_id |-> d, paths |-> ps, demand |-> demand, success |-> success]

\* tuple(sorted(link_tuple)) for every link of a path
CanonicalLinks(path) == {LinkId(path.links[i][1], path.links[i][2]) : i \in 1..Len(path.links)}

\* LDMRAlgorithm.get_link_usage_count
get_link_usage_count(usage, a, b) ==
  IF LinkId(a, b) \in DOMAIN usage THEN usage[LinkId(a, b)] ELSE 0

\* LDMRAlgorithm.increment_link_usage: one increment per entry of path.links,
\* from entry i on
RECURSIVE increment_link_usage(_, _, _)
increment_link_usage(usage, path, i) ==
  IF i > Len(path.links) THEN usage
  ELSE LET id == LinkId(path.links[i][1], path.links[i][2])
           u2 == [x \in DOMAIN usage \cup {id} |->
                    IF x = id THEN get_link_usage_count(usage, id[1], id[2]) + 1 ELSE usage[x]]
       IN increment_link_usage(u2, path, i + 1)

\* mutant: every weight is drawn from [r1, r2], whatever the usage count
WeightDraws_UsageBlind(t, usage) ==
  [DOMAIN t.links -> config.r1..config.r2]

\* the weights update_weight_matrix can draw for the links of t: randint(r1,
\* r2) for a link used fewer than Ne_th times, randint(r2, r3) otherwise
WeightDraws(t, usage) ==
  LET low == {id \in DOMAIN t.links : get_link_usage_count(usage, id[1], id[2]) < Ne_th}
      high == DOMAIN t.links \ low
  IN {[id \in DOMAIN t.links |-> IF id \in low THEN a[id] ELSE b[id]] :
        a \in [low -> config.r1..config.r2], b \in [high -> config.r2..config.r3]}

\* LDMRAlgorithm.update_weight_matrix with the drawn weights w
update_weight_matrix(t, w) == update_link_weights(t, w)

\* the for-loop of find_backup_path_with_excluded_links that removes the
\* excluded links from the clone
RECURSIVE RemoveExcluded(_, _)
RemoveExcluded(t, excluded_links) ==
  IF excluded_links = {} THEN t
  ELSE LET id == CHOOSE x \in excluded_links : TRUE
       IN RemoveExcluded(remove_link(t, id[1], id[2]), excluded_links \ {id})

\* mutant: the excluded links stay on the clone
BackupClone_KeepsLinks(t, excluded_links) == copy(t)

\* the clone of find_backup_path_with_excluded_links before the weight update
BackupClone(t, excluded_links) == RemoveExcluded(copy(t), excluded_links)

\* mutant: the links are removed from, and the weights drawn on, the
\* caller's topology
find_backup_path_with_excluded_links_InPlace(t, source, destination, excluded_links, w) ==
  LET temp == update_weight_matrix(RemoveExcluded(t, excluded_links), w)
  IN [topology |-> temp,
      temp_topology |-> temp,
      backup_path |-> find_shortest_path(temp, source, destination, "weight", {})]

\* LDMRAlgorithm.find_backup_path_with_excluded_links, w the weights drawn:
\* the topology it was given, the clone it searched, and the path found
find_backup_path_with_excluded_links(t, source, destination, excluded_links, w) ==
  LET temp == update_weight_matrix(BackupClone(t, excluded_links), w)
  IN [topology |-> t,
      temp_topology |-> temp,
      backup_path |-> find_shortest_path(temp, source, destination, "weight", {})]

\* the excluded-link set calculate_multipath_for_single_demand collects
ExcludedLinks(ps) == UNION {CanonicalLinks(ps[i]) : i \in 1..Len(ps)}

\* mutant: the loop runs once more, as range(1, K + 1) would
BackupLoopRuns_Inclusive(kk, K) == kk <= K

\* for k in range(1, K): whether iteration kk runs
BackupLoopRuns(kk, K) == kk < K

\* mutant: a demand is put before the demands of equal bandwidth
RECURSIVE InsertDemand_Unstable(_, _)
InsertDemand_Unstable(sorted, d) ==
  IF sorted = <<>> THEN <<d>>
  ELSE IF Head(sorted).bandwidth > d.bandwidth
       THEN <<Head(sorted)>> \o InsertDemand_Unstable(Tail(sorted), d)
       ELSE <<d>> \o sorted

\* sorted(traffic_demands, key=bandwidth, reverse=True): stable, descending
RECURSIVE InsertDemand(_, _)
InsertDemand(sorted, d) ==
  IF sorted = <<>> THEN <<d>>
  ELSE IF Head(sorted).bandwidth >= d.bandwidth
       THEN <<Head(sorted)>> \o InsertDemand(Tail(sorted), d)
       ELSE <<d>> \o sorted

RECURSIVE SortDemandsFrom(_, _, _)
SortDemandsFrom(ds, i, acc) ==
  IF i > Len(ds) THEN acc
  ELSE SortDemandsFrom(ds, i + 1, InsertDemand(acc, ds[i]))

SortedByBandwidth(ds) == SortDemandsFrom(ds, 1, <<>>)

\* the loop that sets every link's weight to its delay
ResetWeights(t) ==
  [t EXCEPT !.links = [id \in DOMAIN t.links |-> [t.links[id] EXCEPT !.weight = t.links[id].delay]]]

\* ------------------------------------------------------------- the inputs
\* a topology built by add_node / add_link: delay_of gives each possible
\* link its delay (0: no such link). Every link is active: Link.__init__
\* sets is_active and nothing in the repository clears it
MakeTopology(delay_of) ==
  LET ids == {id \in AllLinkIds : delay_of[id] # 0}
  IN [nodes |-> NodeIds,
      links |-> [id \in ids |-> NewLink(delay_of[id])],
      neighbors |-> [n \in NodeIds |-> {m \in NodeIds : m # n /\ LinkId(n, m) \in ids}],
      graph |-> [nodes |-> NodeIds, edges |-> [id \in ids |-> delay_of[id]]],
      _adjacency_matrix |-> None,
      _weight_matrix |-> None]

Topologies == {MakeTopology(delay_of) : delay_of \in [AllLinkIds -> {0} \cup Delays]}

DemandLists == UNION {[1..n -> Demands] : n \in 0..MaxDemands}

\* ------------------------------------------------------- TopologyManager
MaxSnapshots == 3
snapshot_duration == 2

\* the TopologySnapshot fields the manager reads, and the topology it holds
TopologySnapshot(timestamp, duration, t) ==
  [timestamp |-> timestamp, duration |-> duration, topology |-> t]

get_end_time(snapshot) == snapshot.timestamp + snapshot.duration

\* TopologyManager.__init__; time and found are the argument and the result
\* of the last get_snapshot_at_time call (time -1: no call yet)
TopologyManager(duration) ==
  [snapshot_duration |-> duration, snapshots |-> <<>>, current_index |-> 0,
   time |-> -1, found |-> None]

\* TopologyManager.add_snapshot(topology) and, with the same timestamp, the
\* call build_time_series makes in each round (current_time += time_step)
add_snapshot(m, t) ==
  [m EXCEPT !.snapshots =
     Append(@, TopologySnapshot(Len(m.snapshots) * m.snapshot_duration,
                                m.snapshot_duration, copy(t)))]

\* the for-loop of get_snapshot_at_time from snapshot i on
RECURSIVE SnapshotScan(_, _, _)
SnapshotScan(m, time, i) ==
  IF i > Len(m.snapshots) THEN None
  ELSE IF m.snapshots[i].timestamp <= time /\ time <= get_end_time(m.snapshots[i])
       THEN Some(m.snapshots[i])
       ELSE SnapshotScan(m, time, i + 1)

\* TopologyManager.get_snapshot_at_time
get_snapshot_at_time(m, time) == SnapshotScan(m, time, 1)

\* no path-finder call was made yet
NoCall ==
  [op |-> "none", source |-> 0, destination |-> 0, weight_type |-> "delay",
   excluded_links |-> {}, k |-> 0, returned |-> <<>>, verified |-> TRUE]

\* no baseline call was made yet
NoResult == AlgorithmResult("none", <<>>, <<>>, FALSE, <<>>)

\* the state of a fresh LDMRAlgorithm and of the bookkeeping
Fresh ==
  /\ pc = "idle"
  /\ traffic_demands = <<>>
  /\ node_pairs = {}
  /\ shortest_paths = <<>>
  /\ link_usage_count = <<>>
  /\ sorted_demands = <<>>
  /\ results = <<>>
  /\ paths = <<>>
  /\ k = 0
  /\ entry_topology = topology
  /\ runs = <<>>
  /\ baseline = NoResult
  /\ last_op = "none"
  /\ last_target = "none"
  /\ clone = None
  /\ shared = [links |-> {}, nodes |-> {}]
  /\ ops = 0
  /\ call = NoCall
  /\ manager = TopologyManager(snapshot_duration)
  /\ runner = NoRun

Init ==
  /\ topology \in Topologies
  /\ config \in {LDMRConfig(K, r1, r2, r3) : K \in 1..MaxK}
  /\ Fresh

\* ----------------------------------------------------- run_ldmr_algorithm
\* entry: reset_algorithm_state, weight := delay, the node pairs of Phase 1
\* mutant: reset_algorithm_state leaves link_usage_count as the last run left it
Enter_KeepsUsage(ds) ==
  /\ pc' = "phase1"
  /\ traffic_demands' = ds
  /\ entry_topology' = topology
  /\ topology' = ResetWeights(topology)
  /\ link_usage_count' = link_usage_count
  /\ results' = <<>>
  /\ shortest_paths' = <<>>
  /\ node_pairs' = {<<ds[i].source_id, ds[i].destination_id>> : i \in 1..Len(ds)}
  /\ sorted_demands' = <<>>
  /\ paths' = <<>>
  /\ k' = 0
  /\ UNCHANGED <<config, runs, baseline, last_op, obj_vars>>

Enter(ds) ==
  /\ pc' = "phase1"
  /\ traffic_demands' = ds
  /\ entry_topology' = topology
  /\ topology' = ResetWeights(topology)
  /\ link_usage_count' = <<>>
  /\ results' = <<>>
  /\ shortest_paths' = <<>>
  /\ node_pairs' = {<<ds[i].source_id, ds[i].destination_id>> : i \in 1..Len(ds)}
  /\ sorted_demands' = <<>>
  /\ paths' = <<>>
  /\ k' = 0
  /\ UNCHANGED <<config, runs, baseline, last_op, obj_vars>>

RunLdmrAlgorithm(ds) ==
  /\ pc = "idle"
  /\ Enter(ds)

\* calculate_shortest_delay_paths: one iteration of its loop over the pairs
Phase1Step(pair) ==
  /\ pc = "phase1"
  /\ pair \in node_pairs
  /\ LET path == find_shortest_path(topology, pair[1], pair[2], "delay", {})
     IN IF path # NoPath
        THEN /\ shortest_paths' = [x \in DOMAIN shortest_paths \cup {pair} |->
                                     IF x = pair THEN path ELSE shortest_paths[x]]
             /\ link_usage_count' = increment_link_usage(link_usage_count, path, 1)
        ELSE UNCHANGED <<shortest_paths, link_usage_count>>
  /\ node_pairs' = node_pairs \ {pair}
  /\ UNCHANGED <<topology, config, pc, traffic_demands, sorted_demands, results,
                 paths, k, entry_topology, runs, baseline, last_op, obj_vars>>

\* Phase 2 begins: the demands are sorted by bandwidth, largest first
SortDemands ==
  /\ pc = "phase1"
  /\ node_pairs = {}
  /\ sorted_demands' = SortedByBandwidth(traffic_demands)
  /\ pc' = "phase2"
  /\ UNCHANGED <<topology, config, traffic_demands, node_pairs, shortest_paths,
                 link_usage_count, results, paths, k, entry_topology, runs,
                 baseline, last_op, obj_vars>>

\* mutant: a demand that reuses its pair's seed path counts its links again
BeginDemand_RecountsSeed ==
  /\ pc = "phase2"
  /\ Len(results) < Len(sorted_demands)
  /\ LET demand == sorted_demands[Len(results) + 1]
         node_pair == <<demand.source_id, demand.destination_id>>
     IN IF node_pair \in DOMAIN shortest_paths
        THEN /\ paths' = <<shortest_paths[node_pair]>>
             /\ link_usage_count' =
                  increment_link_usage(link_usage_count, shortest_paths[node_pair], 1)
             /\ k' = 1
             /\ pc' = "backup"
             /\ UNCHANGED results
        ELSE /\ results' = Append(results, MultiPathResult(node_pair[1], node_pair[2], <<>>, demand, FALSE))
             /\ UNCHANGED <<paths, k, pc, link_usage_count>>
  /\ UNCHANGED <<topology, config, traffic_demands, node_pairs, shortest_paths,
                 sorted_demands, entry_topology, runs, baseline, last_op, obj_vars>>

\* calculate_multipath_for_single_demand up to the backup-path loop: the
\* first path is the seed path, or one computed on the spot
BeginDemand ==
  /\ pc = "phase2"
  /\ Len(results) < Len(sorted_demands)
  /\ LET demand == sorted_demands[Len(results) + 1]
         node_pair == <<demand.source_id, demand.destination_id>>
         shortest_path == find_shortest_path(topology, node_pair[1], node_pair[2], "delay", {})
     IN IF node_pair \in DOMAIN shortest_paths
        THEN /\ paths' = <<shortest_paths[node_pair]>>
             /\ k' = 1
             /\ pc' = "backup"
             /\ UNCHANGED <<link_usage_count, results>>
        ELSE IF shortest_path # NoPath
        THEN /\ paths' = <<shortest_path>>
             /\ link_usage_count' = increment_link_usage(link_usage_count, shortest_path, 1)
             /\ k' = 1
             /\ pc' = "backup"
             /\ UNCHANGED results
        ELSE /\ results' = Append(results, MultiPathResult(node_pair[1], node_pair[2], <<>>, demand, FALSE))
             /\ UNCHANGED <<paths, k, pc, link_usage_count>>
  /\ UNCHANGED <<topology, config, traffic_demands, node_pairs, shortest_paths,
                 sorted_demands, entry_topology, runs, baseline, last_op, obj_vars>>

\* one iteration of the backup-path loop (for k in range(1, K)); the weights
\* are whatever random.randint draws
BackupSearch ==
  /\ pc = "backup"
  /\ BackupLoopRuns(k, config.K)
  /\ LET demand == sorted_demands[Len(results) + 1]
         excluded_links == ExcludedLinks(paths)
     IN \E w \in WeightDraws(BackupClone(topology, excluded_links), link_usage_count) :
          LET r == find_backup_path_with_excluded_links(
                     topology, demand.source_id, demand.destination_id, excluded_links, w)
          IN /\ topology' = r.topology
             /\ IF r.backup_path # NoPath
                THEN /\ paths' = Append(paths, r.backup_path)
                     /\ link_usage_count' = increment_link_usage(link_usage_count, r.backup_path, 1)
                     /\ k' = k + 1
                     /\ UNCHANGED <<pc, results>>
                ELSE \* break: the result is returned with the paths found
                     /\ results' = Append(results, MultiPathResult(demand.source_id,
                                            demand.destination_id, paths, demand, TRUE))
                     /\ pc' = "phase2"
                     /\ paths' = <<>>
                     /\ k' = 0
                     /\ UNCHANGED link_usage_count
  /\ UNCHANGED <<config, traffic_demands, node_pairs, shortest_paths,
                 sorted_demands, entry_topology, runs, baseline, last_op, obj_vars>>

\* the loop ran out: the demand's MultiPathResult is appended to results
FinishDemand ==
  /\ pc = "backup"
  /\ ~BackupLoopRuns(k, config.K)
  /\ LET demand == sorted_demands[Len(results) + 1]
     IN results' = Append(results, MultiPathResult(demand.source_id, demand.destination_id,
                                                   paths, demand, TRUE))
  /\ pc' = "phase2"
  /\ paths' = <<>>
  /\ k' = 0
  /\ UNCHANGED <<topology, config, traffic_demands, node_pairs, shortest_paths,
                 link_usage_count, sorted_demands, entry_topology, runs,
                 baseline, last_op, obj_vars>>

\* return results
ReturnResults ==
  /\ pc = "phase2"
  /\ Len(results) = Len(sorted_demands)
  /\ pc' = "done"
  /\ runs' = Append(runs, [topology |-> entry_topology, demands |-> traffic_demands,
                           results |-> results])
  /\ UNCHANGED <<topology, config, traffic_demands, node_pairs, shortest_paths,
                 link_usage_count, sorted_demands, results, paths, k,
                 entry_topology, baseline, last_op, obj_vars>>

\* ------------------------------------------------- the baseline algorithms
WeightTypes == {"delay", "weight", "hops"}
MaxPaths == 3
tolerance_pct == 10

\* SPFAlgorithm.calculate_paths_for_demand on the idle topology
SPFCalculate(demand, weight_type) ==
  /\ pc = "idle"
  /\ baseline' = SPF_calculate_paths_for_demand(topology, demand, weight_type)
  /\ pc' = "baseline"
  /\ UNCHANGED <<topology, config, run_vars, last_op, obj_vars>>

\* ECMPAlgorithm.calculate_paths_for_demand on the idle topology
ECMPCalculate(demand, weight_type, max_paths) ==
  /\ pc = "idle"
  /\ baseline' = ECMP_calculate_paths_for_demand(topology, demand, weight_type,
                                                 max_paths, tolerance_pct)
  /\ pc' = "baseline"
  /\ UNCHANGED <<topology, config, run_vars, last_op, obj_vars>>

Next ==
  \/ \E ds \in DemandLists : RunLdmrAlgorithm(ds)
  \/ \E pair \in DemandPairs : Phase1Step(pair)
  \/ SortDemands
  \/ BeginDemand
  \/ BackupSearch
  \/ FinishDemand
  \/ ReturnResults
  \/ \E d \in Demands, wt \in WeightTypes : SPFCalculate(d, wt)
  \/ \E d \in Demands, wt \in WeightTypes, mp \in 1..MaxPaths : ECMPCalculate(d, wt, mp)

\* one routing call (LDMR, SPF or ECMP) on a topology the builder made
Spec == Init /\ [][Next]_vars

\* ------------------------------------- repeated runs on one LDMRAlgorithm
MaxRuns == 2

\* the links' weights as an earlier update_link_weights left them
StaleWeights(t) ==
  update_link_weights(t, [id \in DOMAIN t.links |-> r3])

RerunTopologies ==
  LET ts == {MakeTopology(delay_of) : delay_of \in [AllLinkIds -> {0, 1}]}
  IN ts \cup {StaleWeights(t) : t \in ts}

InitRerun ==
  /\ topology \in RerunTopologies
  /\ config = LDMRConfig(MaxK, r1, r2, r3)
  /\ Fresh

\* run_ldmr_algorithm called again on the same instance, topology and demands
RunAgain ==
  /\ pc = "done"
  /\ Len(runs) < MaxRuns
  /\ Enter(traffic_demands)

NextRerun ==
  \/ \E ds \in DemandLists : RunLdmrAlgorithm(ds)
  \/ \E pair \in DemandPairs : Phase1Step(pair)
  \/ SortDemands
  \/ BeginDemand
  \/ BackupSearch
  \/ FinishDemand
  \/ ReturnResults
  \/ RunAgain

SpecRerun == InitRerun /\ [][NextRerun]_vars

\* ------------------------------------------- the topology's mutation calls
InitTopo ==
  /\ topology = EmptyTopology(NodeIds)
  /\ config = LDMRConfig(MaxK, r1, r2, r3)
  /\ Fresh

\* NetworkTopology.add_link(Link(a, b, delay=delay)); ValueError and no
\* change if an endpoint is not a node
AddLink(a, b, delay) ==
  /\ pc = "idle"
  /\ IF a \notin topology.nodes \/ b \notin topology.nodes
     THEN /\ last_op' = "add_link_error"
          /\ UNCHANGED topology
     ELSE /\ last_op' = "add_link"
          /\ topology' = add_link(topology, a, b, NewLink(delay))
  /\ UNCHANGED <<config, pc, run_vars, baseline, obj_vars>>

\* NetworkTopology.remove_link(a, b)
RemoveLink(a, b) ==
  /\ pc = "idle"
  /\ last_op' = "remove_link"
  /\ topology' = remove_link(topology, a, b)
  /\ UNCHANGED <<config, pc, run_vars, baseline, obj_vars>>

NextTopo ==
  \/ \E a \in Endpoints, b \in Endpoints, delay \in Delays : a # b /\ AddLink(a, b, delay)
  \/ \E a \in Endpoints, b \in Endpoints : a # b /\ RemoveLink(a, b)

SpecTopo == InitTopo /\ [][NextTopo]_vars

\* ------------------------------------- calls on a topology and on its copy
MaxOps == 3

\* the endpoint pairs the calls name: a pair in both orders, and a pair with
\* an id that is no node at first
OpPairs == {<<1, 2>>, <<2, 1>>, <<1, UnknownId>>}

\* the calls: the method, its endpoints a and b (add_node: the node a), and
\* x, the delay, weight or flag (0 / 1) it is given
Ops ==
  {[name |-> "add_link", a |-> p[1], b |-> p[2], x |-> d] : p \in OpPairs, d \in Delays}
  \cup {[name |-> "remove_link", a |-> p[1], b |-> p[2], x |-> 0] : p \in OpPairs}
  \cup {[name |-> "update_link_weights", a |-> p[1], b |-> p[2], x |-> r3] : p \in OpPairs}
  \cup {[name |-> "set_is_active", a |-> p[1], b |-> p[2], x |-> f] : p \in OpPairs, f \in {0, 1}}
  \cup {[name |-> "add_node", a |-> n, b |-> n, x |-> 0] : n \in {1, UnknownId}}
  \cup {[name |-> nm, a |-> 0, b |-> 0, x |-> 0] :
          nm \in {"get_weight_matrix", "get_adjacency_matrix", "run_ldmr_algorithm"}}

\* the topology t after the call op; run_ldmr_algorithm is called with an
\* empty demand list, which leaves only its weight := delay loop
ApplyOp(t, op) ==
  CASE op.name = "add_link" -> try_add_link(t, op.a, op.b, NewLink(op.x)).topology
    [] op.name = "remove_link" -> remove_link(t, op.a, op.b)
    [] op.name = "update_link_weights" -> update_link_weights(t, (<<op.a, op.b>> :> op.x))
    [] op.name = "set_is_active" -> write_is_active(t, op.a, op.b, op.x = 1)
    [] op.name = "add_node" -> add_node(t, op.a)
    [] op.name = "get_weight_matrix" -> get_weight_matrix(t)
    [] op.name = "get_adjacency_matrix" -> get_adjacency_matrix(t)
    [] op.name = "run_ldmr_algorithm" -> ResetWeights(t)

Raised(t, op) ==
  op.name = "add_link" /\ try_add_link(t, op.a, op.b, NewLink(op.x)).raised

\* a write through an object both topologies hold is seen by the other one
Propagate(other, after, sh) ==
  [other EXCEPT
     !.links = [id \in DOMAIN other.links |->
                  IF id \in sh.links /\ id \in DOMAIN after.links
                  THEN after.links[id] ELSE other.links[id]],
     !.neighbors = [n \in other.nodes |->
                  IF n \in sh.nodes /\ n \in after.nodes
                  THEN after.neighbors[n] ELSE other.neighbors[n]]]

\* an object a call replaces or drops in one topology is shared no longer
SharedAfter(sh, t, op) ==
  [links |-> sh.links \ (IF op.name = "remove_link" \/ (op.name = "add_link" /\ ~Raised(t, op))
                         THEN {LinkId(op.a, op.b)} ELSE {}),
   nodes |-> sh.nodes \ (IF op.name = "add_node" THEN {op.a} ELSE {})]

ObjectTopologies ==
  LET shapes == {{<<1, 2>>}, {<<1, 2>>, <<2, 3>>}, AllLinkIds}
      ts == {MakeTopology([id \in AllLinkIds |-> IF id \in ids THEN 1 ELSE 0]) : ids \in shapes}
  IN ts \cup {StaleWeights(t) : t \in ts}

InitObject ==
  /\ topology \in ObjectTopologies
  /\ config = LDMRConfig(MaxK, r1, r2, r3)
  /\ Fresh

\* clone = topology.copy()
CopyCall ==
  /\ pc = "idle"
  /\ ops < MaxOps
  /\ clone = None
  /\ clone' = Some(copy(topology))
  /\ shared' = CopyShares(topology)
  /\ last_op' = "copy"
  /\ last_target' = "original"
  /\ ops' = ops + 1
  /\ UNCHANGED <<topology, config, pc, run_vars, baseline, call, manager, runner>>

\* the call op made on the original topology or on the clone
Call(tg, op) ==
  /\ pc = "idle"
  /\ ops < MaxOps
  /\ tg = "clone" => clone # None
  /\ LET target == IF tg = "original" THEN topology ELSE clone[1]
         after == ApplyOp(target, op)
     IN /\ topology' = IF tg = "original" THEN after
                       ELSE Propagate(topology, after, shared)
        /\ clone' = IF clone = None THEN None
                    ELSE IF tg = "original" THEN Some(Propagate(clone[1], after, shared))
                    ELSE Some(after)
        /\ shared' = SharedAfter(shared, target, op)
        /\ last_op' = IF Raised(target, op) THEN "add_link_error" ELSE op.name
  /\ last_target' = tg
  /\ ops' = ops + 1
  /\ UNCHANGED <<config, pc, run_vars, baseline, call, manager, runner>>

NextObject ==
  \/ CopyCall
  \/ \E tg \in {"original", "clone"}, op \in Ops : Call(tg, op)

SpecObject == InitObject /\ [][NextObject]_vars

\* ------------------------------- ECMP on a topology whose weights were set
InitECMP ==
  /\ topology \in {MakeTopology(delay_of) : delay_of \in [AllLinkIds -> {0, 1}]}
  /\ config = LDMRConfig(MaxK, r1, r2, r3)
  /\ Fresh

\* topology.update_link_weights({link_id: weight}) on the idle topology
UpdateLinkWeights(link_id, weight) ==
  /\ pc = "idle"
  /\ ops < MaxOps
  /\ topology' = update_link_weights(topology, (link_id :> weight))
  /\ last_op' = "update_link_weights"
  /\ last_target' = "original"
  /\ ops' = ops + 1
  /\ UNCHANGED <<config, pc, run_vars, baseline, clone, shared, call, manager, runner>>

NextECMP ==
  \/ \E link_id \in AllLinkIds : UpdateLinkWeights(link_id, r3)
  \/ \E d \in Demands, wt \in WeightTypes, mp \in 1..MaxPaths : ECMPCalculate(d, wt, mp)

SpecECMP == InitECMP /\ [][NextECMP]_vars

\* ------------------------------------ runs under any LDMRConfig whatever
\* the configurations a caller builds: K from 0, and the three weight
\* bounds in their order, with the lower two swapped, with the upper two
\* swapped
Configs ==
  {LDMRConfig(K, b[1], b[2], b[3]) :
     K \in 0..MaxK, b \in {<<r1, r2, r3>>, <<r2, r1, r3>>, <<r1, r3, r2>>}}

InitConfig ==
  /\ topology \in ObjectTopologies
  /\ \E cfg \in Configs :
       /\ ~LDMRAlgorithm_init(cfg).raised
       /\ config = LDMRAlgorithm_init(cfg).config
  /\ Fresh

\* random.randint(a, b) with a > b raises ValueError out of
\* update_weight_matrix, and run_ldmr_algorithm does not catch it
RandintRaises ==
  /\ pc = "backup"
  /\ BackupLoopRuns(k, config.K)
  /\ WeightDraws(BackupClone(topology, ExcludedLinks(paths)), link_usage_count) = {}
  /\ pc' = "raised"
  /\ UNCHANGED <<topology, config, traffic_demands, node_pairs, shortest_paths,
                 link_usage_count, sorted_demands, results, paths, k,
                 entry_topology, runs, baseline, last_op, obj_vars>>

NextConfig ==
  \/ \E ds \in DemandLists : RunLdmrAlgorithm(ds)
  \/ \E pair \in DemandPairs : Phase1Step(pair)
  \/ SortDemands
  \/ BeginDemand
  \/ BackupSearch
  \/ FinishDemand
  \/ ReturnResults
  \/ RandintRaises

SpecConfig == InitConfig /\ [][NextConfig]_vars

\* ----------------------------------------- the path finders, called once
\* what a link of the drawn topologies is: absent; of delay 1 with its
\* weight set to r3; of delay MaxDelay with its weight set to r1; or of
\* delay 1 and weight r1 with is_active written False
LinkKinds == {"none", "heavy", "slow", "down"}

\* add_link for every link, update_link_weights for all of them, and the
\* is_active writes
KernelTopology(kind_of) ==
  LET built == MakeTopology([id \in AllLinkIds |->
                              IF kind_of[id] = "none" THEN 0
                              ELSE IF kind_of[id] = "slow" THEN MaxDelay ELSE 1])
      weighted == update_link_weights(built,
                    [id \in DOMAIN built.links |-> IF kind_of[id] = "heavy" THEN r3 ELSE r1])
  IN [weighted EXCEPT !.links = [id \in DOMAIN weighted.links |->
                                   [weighted.links[id] EXCEPT !.is_active = (kind_of[id] # "down")]]]

KernelTopologies == {KernelTopology(kind_of) : kind_of \in [AllLinkIds -> LinkKinds]}

\* the endpoint pairs of the calls: two pairs of nodes, a pair with an
\* unknown endpoint, and a source that is its own destination
KernelPairs == DemandPairs \cup {<<1, 1>>}

\* the excluded-link sets of the calls, of canonical keys
ExcludedSets == {{}, {<<1, NumNodes>>}, {<<1, 2>>, <<2, NumNodes>>}}

InitKernel ==
  /\ topology \in KernelTopologies
  /\ config = LDMRConfig(MaxK, r1, r2, r3)
  /\ Fresh

\* DijkstraPathFinder(topology).find_shortest_path(...)
FindShortestPath(source, destination, weight_type, excluded_links) ==
  /\ pc = "idle"
  /\ call' = [op |-> "find_shortest_path", source |-> source, destination |-> destination,
              weight_type |-> weight_type, excluded_links |-> excluded_links, k |-> 1,
              returned |-> <<find_shortest_path(topology, source, destination,
                                                weight_type, excluded_links)>>,
              verified |-> TRUE]
  /\ pc' = "kernel"
  /\ UNCHANGED <<topology, config, run_vars, baseline, last_op, last_target, clone, shared,
                 ops, manager, runner>>

\* finder = LinkDisjointPathFinder(topology); paths =
\* finder.find_link_disjoint_paths(...); finder.verify_link_disjoint(paths)
FindLinkDisjointPaths(source, destination, kk, weight_type) ==
  /\ pc = "idle"
  /\ LET ps == find_link_disjoint_paths(topology, source, destination, kk, weight_type)
     IN call' = [op |-> "find_link_disjoint_paths", source |-> source,
                 destination |-> destination, weight_type |-> weight_type,
                 excluded_links |-> {}, k |-> kk, returned |-> ps,
                 verified |-> verify_link_disjoint(ps)]
  /\ pc' = "kernel"
  /\ UNCHANGED <<topology, config, run_vars, baseline, last_op, last_target, clone, shared,
                 ops, manager, runner>>

NextKernel ==
  \/ \E p \in KernelPairs, wt \in WeightTypes, ex \in ExcludedSets :
       FindShortestPath(p[1], p[2], wt, ex)
  \/ \E p \in KernelPairs, kk \in 0..MaxPaths, wt \in WeightTypes :
       FindLinkDisjointPaths(p[1], p[2], kk, wt)

SpecKernel == InitKernel /\ [][NextKernel]_vars

\* ------------------------- find_shortest_path, excluded entries as written
\* excluded-link sets whose entries are written in either endpoint order
ExcludedAsWritten ==
  ExcludedSets \cup {{<<NumNodes, 1>>}, {<<2, 1>>, <<2, NumNodes>>}}

NextExcluded ==
  \E p \in KernelPairs, wt \in WeightTypes, ex \in ExcludedAsWritten :
    FindShortestPath(p[1], p[2], wt, ex)

SpecExcluded == InitKernel /\ [][NextExcluded]_vars

\* --------------------------------------- find_k_shortest_paths, called once
\* DijkstraPathFinder(topology).find_k_shortest_paths(...)
FindKShortestPaths(source, destination, kk, weight_type) ==
  /\ pc = "idle"
  /\ call' = [op |-> "find_k_shortest_paths", source |-> source, destination |-> destination,
              weight_type |-> weight_type, excluded_links |-> {}, k |-> kk,
              returned |-> find_k_shortest_paths(topology, source, destination, kk, weight_type),
              verified |-> TRUE]
  /\ pc' = "kernel"
  /\ UNCHANGED <<topology, config, run_vars, baseline, last_op, last_target, clone, shared,
                 ops, manager, runner>>

NextKShortest ==
  \E p \in KernelPairs, kk \in 0..MaxPaths, wt \in WeightTypes :
    FindKShortestPaths(p[1], p[2], kk, wt)

SpecKShortest == InitKernel /\ [][NextKShortest]_vars

\* ------------------------------------------- a time series of snapshots
InitSnapshots ==
  /\ topology \in ObjectTopologies
  /\ config = LDMRConfig(MaxK, r1, r2, r3)
  /\ Fresh

\* manager.add_snapshot(topology), one round of build_time_series
AddSnapshot ==
  /\ pc = "idle"
  /\ Len(manager.snapshots) < MaxSnapshots
  /\ manager' = add_snapshot(manager, topology)
  /\ UNCHANGED <<topology, config, pc, run_vars, baseline, last_op, last_target, clone,
                 shared, ops, call, runner>>

\* manager.get_snapshot_at_time(time)
GetSnapshotAtTime(time) ==
  /\ pc = "idle"
  /\ manager' = [manager EXCEPT !.time = time, !.found = get_snapshot_at_time(manager, time)]
  /\ UNCHANGED <<topology, config, pc, run_vars, baseline, last_op, last_target, clone,
                 shared, ops, call, runner>>

NextSnapshots ==
  \/ AddSnapshot
  \/ \E time \in 0..(MaxSnapshots * snapshot_duration + 1) : GetSnapshotAtTime(time)

SpecSnapshots == InitSnapshots /\ [][NextSnapshots]_vars

\* ------------------------------------------- the baseline runner
Algorithms == {"SPF", "ECMP"}

\* SPFAlgorithm / ECMPAlgorithm (config: weight_type, max_paths) .run_algorithm
\* up to its loop: results = []
RunAlgorithm(algorithm, ds, weight_type) ==
  /\ pc = "idle"
  /\ runner' = [NoRun EXCEPT !.algorithm = algorithm, !.weight_type = weight_type,
                             !.traffic_demands = ds]
  /\ pc' = "runner"
  /\ UNCHANGED <<topology, config, run_vars, baseline, last_op, last_target, clone,
                 shared, ops, call, manager>>

\* one round of the loop: calculate_paths_for_demand, results.append(result)
RunnerStep ==
  /\ pc = "runner"
  /\ Len(runner.results) < Len(runner.traffic_demands)
  /\ \E demand \in Demands, weight_type \in WeightTypes :
       /\ demand = runner.traffic_demands[Len(runner.results) + 1]
       /\ weight_type = runner.weight_type
       /\ runner' =
            [runner EXCEPT !.results =
               Append(@, IF runner.algorithm = "SPF"
                         THEN SPF_calculate_paths_for_demand(topology, demand, weight_type)
                         ELSE ECMP_calculate_paths_for_demand(topology, demand, weight_type,
                                                              MaxPaths, tolerance_pct))]
  /\ UNCHANGED <<topology, config, pc, run_vars, baseline, last_op, last_target, clone,
                 shared, ops, call, manager>>

\* after the loop: the report divides success_count by len(results), a
\* ZeroDivisionError when the list is empty, and then nothing is returned
RunnerReport ==
  /\ pc = "runner"
  /\ Len(runner.results) = Len(runner.traffic_demands)
  /\ runner' = [runner EXCEPT !.finished = TRUE,
                              !.raised = (Len(runner.results) = 0),
                              !.returned = runner.results]
  /\ pc' = "baseline"
  /\ UNCHANGED <<topology, config, run_vars, baseline, last_op, last_target, clone,
                 shared, ops, call, manager>>

NextRunner ==
  \/ \E algorithm \in Algorithms, ds \in DemandLists, wt \in WeightTypes :
       RunAlgorithm(algorithm, ds, wt)
  \/ RunnerStep
  \/ RunnerReport

SpecRunner == InitECMP /\ [][NextRunner]_vars

\* ================================================================ claims
\* --- helpers of the claims: computed from the topology's link table alone
\* the nodes reachable from the set S over active links
RECURSIVE ReachableFrom(_, _)
ReachableFrom(t, S) ==
  LET S2 == S \cup {m \in t.nodes : \E n \in S : /\ LinkId(n, m) \in DOMAIN t.links
                                                 /\ t.links[LinkId(n, m)].is_active}
  IN IF S2 = S THEN S ELSE ReachableFrom(t, S2)

Connected(t, a, b) == a \in t.nodes /\ b \in t.nodes /\ b \in ReachableFrom(t, {a})

SetMin(S) == CHOOSE m \in S : \A x \in S : m <= x

\* the least total delay of a walk from a to b of at most h active links;
\* -1 if there is none
RECURSIVE MinDelayWithin(_, _, _, _)
MinDelayWithin(t, a, b, h) ==
  IF a = b THEN 0
  ELSE IF h = 0 THEN -1
  ELSE LET via == {m \in t.nodes \ {a} : /\ LinkId(a, m) \in DOMAIN t.links
                                        /\ t.links[LinkId(a, m)].is_active
                                        /\ MinDelayWithin(t, m, b, h - 1) # -1}
       IN IF via = {} THEN -1
          ELSE SetMin({t.links[LinkId(a, m)].delay + MinDelayWithin(t, m, b, h - 1) : m \in via})

MinDelay(t, a, b) == MinDelayWithin(t, a, b, Cardinality(t.nodes) - 1)

\* consecutive nodes of ns are joined by active links of t
IsRoute(t, ns) ==
  \A i \in 1..(Len(ns) - 1) : /\ LinkId(ns[i], ns[i + 1]) \in DOMAIN t.links
                              /\ t.links[LinkId(ns[i], ns[i + 1])].is_active

RECURSIVE RouteDelay(_, _, _)
RouteDelay(t, ns, i) ==
  IF i >= Len(ns) THEN 0
  ELSE t.links[LinkId(ns[i], ns[i + 1])].delay + RouteDelay(t, ns, i + 1)

\* how often path traverses the link id
Traversals(path, id) ==
  Cardinality({i \in 1..Len(path.links) : LinkId(path.links[i][1], path.links[i][2]) = id})

RECURSIVE SumOver(_, _)
SumOver(f, n) == IF n = 0 THEN 0 ELSE f[n] + SumOver(f, n - 1)

\* C1: in every result of run_ldmr_algorithm, any two distinct paths share no
\* link, links compared by canonical key
C1_LinkDisjoint ==
  \A i \in 1..Len(results) : \A a, b \in 1..Len(results[i].paths) :
    a # b => CanonicalLinks(results[i].paths[a]) \cap CanonicalLinks(results[i].paths[b]) = {}

C1_Witness ==
  /\ pc = "done"
  /\ \E i \in 1..Len(results) :
       /\ Len(results[i].paths) = 2
       /\ Len(results[i].paths[1].links) >= 2
       /\ Len(results[i].paths[2].links) >= 2

\* C2: every path of every result starts at the demand's source and ends at
\* its destination, the seed path and the backup paths alike
C2_Endpoints ==
  \A i \in 1..Len(results) : \A j \in 1..Len(results[i].paths) :
    LET p == results[i].paths[j]
    IN /\ Len(p.nodes) >= 1
       /\ p.nodes[1] = results[i].demand.source_id
       /\ p.nodes[Len(p.nodes)] = results[i].demand.destination_id

C2_Witness ==
  /\ pc = "done"
  /\ \E i \in 1..Len(results) :
       /\ Len(results[i].paths) = 2
       /\ results[i].demand.source_id # results[i].demand.destination_id
       /\ Len(results[i].paths[2].nodes) = 4

\* C3: a caller asking for K paths never gets more: an LDMR result holds at
\* most config.K paths, an SPF result at most one, an ECMP result at most
\* max_paths
C3_KBound ==
  /\ \A i \in 1..Len(results) : Len(results[i].paths) <= config.K
  /\ Len(paths) <= config.K
  /\ baseline.algorithm_name = "SPF" => Len(baseline.paths) <= 1
  /\ baseline.algorithm_name = "ECMP" =>
       IF baseline.success THEN Len(baseline.paths) <= baseline.metadata.max_paths
       ELSE baseline.paths = <<>>

C3_Witness ==
  /\ pc = "done"
  /\ config.K = MaxK
  /\ \E i \in 1..Len(results) : Len(results[i].paths) = config.K

\* the ECMP bound is attained as well
C3_ECMPAtBound ==
  /\ baseline.algorithm_name = "ECMP"
  /\ baseline.success
  /\ baseline.metadata.max_paths = 2
  /\ Len(baseline.paths) = 2

\* C4: a finished run holds exactly one result per input demand; a result's
\* success flag is true exactly when it has a path; and it has no path exactly
\* when an endpoint is not a node of the topology or no path joins the
\* endpoints
C4_TotalResults ==
  pc = "done" =>
    /\ Len(results) = Len(traffic_demands)
    /\ \A i \in 1..Len(results) :
         LET r == results[i]
         IN /\ r.success <=> (r.paths # <<>>)
            /\ (r.paths = <<>>) <=>
                 ~Connected(topology, r.demand.source_id, r.demand.destination_id)

C4_Witness ==
  /\ pc = "done"
  /\ Len(results) = 2
  /\ results[1].success /\ results[1].paths # <<>>
  /\ ~results[2].success /\ results[2].paths = <<>>
  /\ results[2].demand.destination_id \in topology.nodes

\* C5: the first path of a successful result is a route of the topology from
\* the demand's source to its destination whose summed link delay is the
\* least of any such route
C5_SeedOptimal ==
  \A i \in 1..Len(results) :
    results[i].success =>
      LET p == results[i].paths[1]
          d == results[i].demand
      IN /\ IsRoute(topology, p.nodes)
         /\ p.nodes[1] = d.source_id /\ p.nodes[Len(p.nodes)] = d.destination_id
         /\ RouteDelay(topology, p.nodes, 1) = MinDelay(topology, d.source_id, d.destination_id)
         /\ p.total_delay = RouteDelay(topology, p.nodes, 1)

\* the seed path takes two hops although a direct link exists
C5_Witness ==
  \E i \in 1..Len(results) :
    /\ results[i].success
    /\ Len(results[i].paths[1].nodes) = 3
    /\ LinkId(results[i].demand.source_id, results[i].demand.destination_id)
         \in DOMAIN topology.links

\* the permutations of 1..n that sort ds by bandwidth, largest first, equal
\* bandwidths in input order
StableOrders(ds) ==
  {pi \in [1..Len(ds) -> 1..Len(ds)] :
     /\ \A i, j \in 1..Len(ds) : i # j => pi[i] # pi[j]
     /\ \A i, j \in 1..Len(ds) :
          i < j => \/ ds[pi[i]].bandwidth > ds[pi[j]].bandwidth
                   \/ ds[pi[i]].bandwidth = ds[pi[j]].bandwidth /\ pi[i] < pi[j]}

\* C6: Phase 2 processes the demands, and lists their results, in
\* non-increasing bandwidth order, demands of equal bandwidth in input order
C6_ElephantFirst ==
  pc \in {"phase2", "backup", "done"} =>
    \E pi \in StableOrders(traffic_demands) :
      \A i \in 1..Len(results) : results[i].demand = traffic_demands[pi[i]]

C6_Witness ==
  /\ pc = "done"
  /\ Len(traffic_demands) = 2
  /\ traffic_demands[1].bandwidth < traffic_demands[2].bandwidth
  /\ results[1].demand = traffic_demands[2]
  /\ results[2].demand = traffic_demands[1]

\* C7 (the claim as stated; the code gives it no seed to fix): two runs on the
\* same topology, demand list and configuration return the same results
C7_SeedDeterminism ==
  \A i, j \in 1..Len(runs) :
    (runs[i].demands = runs[j].demands /\ runs[i].topology = runs[j].topology)
      => runs[i].results = runs[j].results

RECURSIVE SetSum(_, _)
SetSum(f, S) ==
  IF S = {} THEN 0
  ELSE LET x == CHOOSE y \in S : TRUE IN f[x] + SetSum(f, S \ {x})

\* traversals of the link id by the seed paths, one seed per distinct pair
SeedTraversals(id) ==
  SetSum([pr \in DOMAIN shortest_paths |-> Traversals(shortest_paths[pr], id)],
         DOMAIN shortest_paths)

\* traversals of the link id by the accepted backup paths among ps
BackupTraversals(ps, id) ==
  SumOver([j \in 1..Len(ps) |-> IF j = 1 THEN 0 ELSE Traversals(ps[j], id)], Len(ps))

\* C8: during and after a run the usage count of every link is the number of
\* accepted paths that traverse it: each seed path once per distinct pair,
\* when seeded and not again when a demand reuses it, and each accepted backup
\* path once
C8_UsageCount ==
  /\ \A i \in 1..Len(results) :
       LET pr == <<results[i].demand.source_id, results[i].demand.destination_id>>
       IN results[i].paths # <<>> =>
            pr \in DOMAIN shortest_paths /\ results[i].paths[1] = shortest_paths[pr]
  /\ \A id \in AllLinkIds :
       get_link_usage_count(link_usage_count, id[1], id[2]) =
         SeedTraversals(id)
         + SumOver([i \in 1..Len(results) |-> BackupTraversals(results[i].paths, id)],
                   Len(results))
         + BackupTraversals(paths, id)

\* two demands of one pair reuse one seed path, each with a backup path of
\* its own, and the seed's links are counted once
C8_Witness ==
  /\ pc = "done"
  /\ Len(results) = 2
  /\ results[1].demand.source_id = results[2].demand.source_id
  /\ Len(results[1].paths) = 2
  /\ results[2].paths # <<>>
  /\ results[1].paths[1] = results[2].paths[1]
  /\ \A id \in CanonicalLinks(results[1].paths[1]) :
       get_link_usage_count(link_usage_count, id[1], id[2]) = 1

\* C9: from the entry of a run on, the caller's topology is the topology the
\* run was given with every link's weight set to its delay: the link removals
\* and the random weights of a backup search stay on the clone
C9_TopologyPreserved ==
  pc \in {"phase1", "phase2", "backup", "done"} => topology = ResetWeights(entry_topology)

C9_Witness ==
  /\ pc = "done"
  /\ topology # entry_topology
  /\ \E i \in 1..Len(results) : Len(results[i].paths) = 2

\* C10: after any sequence of add_link and remove_link calls, b is a
\* neighbour of a exactly when a is a neighbour of b
C10_AdjacencySymmetry ==
  \A a, b \in Endpoints :
    b \in get_neighbors(topology, a) <=> a \in get_neighbors(topology, b)

C10_Witness ==
  /\ last_op = "remove_link"
  /\ 2 \in get_neighbors(topology, 1)
  /\ 3 \notin get_neighbors(topology, 1)
  /\ Cardinality(DOMAIN topology.links) = 3

\* C11: get_link(a, b) and get_link(b, a) give the same link or both none;
\* every link is stored under its canonical key, so adding (b, a) over an
\* existing (a, b) does not add a link; and remove_link(b, a) removes the
\* link (a, b)
C11_CanonicalKey ==
  [][/\ \A a, b \in Endpoints :
          /\ has_link(topology', a, b) <=> has_link(topology', b, a)
          /\ has_link(topology', a, b) => get_link(topology', a, b) = get_link(topology', b, a)
     /\ \A id \in DOMAIN topology'.links : id[1] <= id[2]
     /\ \A a, b \in NodeIds :
          /\ topology' = remove_link(topology, b, a) => ~has_link(topology', a, b)
          /\ (has_link(topology, a, b)
              /\ \E delay \in Delays : topology' = add_link(topology, b, a, NewLink(delay)))
             => Cardinality(DOMAIN topology'.links) = Cardinality(DOMAIN topology.links)
    ]_vars

\* a link between 1 and 2, however its endpoints were given, is found in
\* both orders under the key (1, 2)
C11_Witness ==
  /\ last_op = "add_link"
  /\ has_link(topology, 2, 1)
  /\ DOMAIN topology.links = {<<1, 2>>}
  /\ get_link(topology, 2, 1) = get_link(topology, 1, 2)

\* what a caller observes of a topology: its statistics, its link set, its
\* adjacency, and the fields of every link
Observed(t) ==
  [statistics |-> get_statistics(t),
   link_set |-> DOMAIN t.links,
   adjacency |-> [n \in t.nodes |-> get_neighbors(t, n)],
   links |-> t.links]

\* C12: once clone = topology.copy() has returned, a call of add_node,
\* add_link, remove_link, update_link_weights or run_ldmr_algorithm on the
\* clone, or a direct write of a field of one of its links, leaves the
\* original's statistics, link set, adjacency and link fields as they were,
\* and a call on the original leaves the clone's as they were
C12_CloneIndependent ==
  [][(clone # None /\ clone' # None)
       => /\ last_target' = "clone" => Observed(topology') = Observed(topology)
          /\ last_target' = "original" => Observed(clone'[1]) = Observed(clone[1])
    ]_vars

\* the active flag and then the weight of a link were written on the clone,
\* and the original's link still has its own weight and flag
C12_Witness ==
  /\ clone # None
  /\ last_target = "clone"
  /\ last_op = "update_link_weights"
  /\ has_link(clone[1], 1, 2)
  /\ has_link(topology, 1, 2)
  /\ get_link(clone[1], 1, 2).weight = r3
  /\ ~get_link(clone[1], 1, 2).is_active
  /\ get_link(topology, 1, 2).weight = 1
  /\ get_link(topology, 1, 2).is_active

\* C13: get_neighbors(a) returns no id b that is joined to a only by a link
\* whose is_active flag is false
C13_ActiveNeighbors ==
  \A a \in topology.nodes : \A b \in Endpoints :
    (has_link(topology, a, b) /\ ~get_link(topology, a, b).is_active)
      => b \notin get_neighbors(topology, a)

\* a cached matrix, if there is one, is the matrix the getter would compute
CachesFresh(t) ==
  /\ t._weight_matrix # None => t._weight_matrix[1] = WeightMatrixOf(t)
  /\ t._adjacency_matrix # None => t._adjacency_matrix[1] = AdjacencyMatrixOf(t)

\* the object of the last call
LastTarget == IF last_target = "clone" THEN clone[1] ELSE topology

\* C14: a call of add_node, add_link, remove_link, update_link_weights,
\* run_ldmr_algorithm, get_weight_matrix or get_adjacency_matrix on a
\* topology without a stale cached matrix leaves no stale cached matrix
C14_NoStaleMatrix ==
  [][(/\ last_op' \in {"add_node", "add_link", "add_link_error", "remove_link",
                       "update_link_weights", "run_ldmr_algorithm",
                       "get_weight_matrix", "get_adjacency_matrix"}
      /\ CachesFresh(IF last_target' = "clone" THEN clone[1] ELSE topology))
       => CachesFresh(LastTarget')
    ]_vars

\* C15: add_link with an endpoint that is no node of the topology raises,
\* and links, adjacency sets, graph and cached matrices are as before
C15_RejectedAddLink ==
  [][/\ \A tg \in {"original", "clone"} : \A op \in Ops :
          (/\ Call(tg, op)
           /\ op.name = "add_link"
           /\ LET t == IF tg = "clone" THEN clone[1] ELSE topology
              IN op.a \notin t.nodes \/ op.b \notin t.nodes)
            => last_op' = "add_link_error"
     /\ last_op' = "add_link_error" => (topology' = topology /\ clone' = clone)
    ]_vars

\* add_link(1, UnknownId) raised on a topology that holds a cached weight
\* matrix, and the matrix is still cached
C15_Witness ==
  /\ last_op = "add_link_error"
  /\ last_target = "original"
  /\ UnknownId \notin topology.nodes
  /\ topology._weight_matrix # None
  /\ topology.links # <<>>

RECURSIVE SumWeight(_, _, _)
SumWeight(t, ls, i) ==
  IF i > Len(ls) THEN 0
  ELSE get_link(t, ls[i][1], ls[i][2]).weight + SumWeight(t, ls, i + 1)

\* the cost of a path under a weight kind: the sum of its links' delays, the
\* sum of its links' current weights, or its number of hops
CostUnder(t, path, weight_type) ==
  IF weight_type = "delay" THEN SumDelay(t, path.links, 1)
  ELSE IF weight_type = "weight" THEN SumWeight(t, path.links, 1)
  ELSE Len(path.links)

\* C16: the paths of a successful ECMP result are exactly the K-shortest
\* candidates (K = max_paths) whose cost under the configured weight kind is
\* at most min_cost * (1 + tolerance), min_cost the smallest such cost
C16_ECMPCostBound ==
  (pc = "baseline" /\ baseline.algorithm_name = "ECMP" /\ baseline.success)
    => LET wt == baseline.metadata.weight_type
           cands == find_k_shortest_paths(topology, baseline.demand.source_id,
                                          baseline.demand.destination_id,
                                          baseline.metadata.max_paths, wt)
           cost == [i \in 1..Len(cands) |-> CostUnder(topology, cands[i], wt)]
           min_cost == SeqMin(cost, Len(cands))
       IN baseline.paths =
            FilterSeq(cands, [i \in 1..Len(cands) |->
                                100 * cost[i] <= min_cost * (100 + tolerance_pct)], 1)

ValidConfig(cfg) == cfg.K >= 1 /\ 0 < cfg.r1 /\ cfg.r1 < cfg.r2 /\ cfg.r2 < cfg.r3

\* C17: run_ldmr_algorithm is entered only with a configuration that has
\* K >= 1 and 0 < r1 < r2 < r3 (any other was rejected at construction), and
\* no run fails part-way
C17_ConfigRejected ==
  /\ pc # "idle" => ValidConfig(config)
  /\ pc # "raised"

\* the sum of the delays the topology's links have, one term per entry
RECURSIVE LinkDelaySum(_, _)
LinkDelaySum(t, ls) ==
  IF ls = <<>> THEN 0
  ELSE t.links[LinkId(Head(ls)[1], Head(ls)[2])].delay + LinkDelaySum(t, Tail(ls))

DelayIsLinkSum(p) ==
  /\ \A i \in 1..Len(p.links) : has_link(topology, p.links[i][1], p.links[i][2])
  /\ p.total_delay = LinkDelaySum(topology, p.links)

\* C18: the total_delay of every path a shortest-path search, a k-shortest
\* search or an LDMR run returns (seed paths and the backup paths found on
\* the clone) is the sum of the delays of the topology's links named by its
\* links list
C18_TotalDelay ==
  /\ \A pair \in DOMAIN shortest_paths : DelayIsLinkSum(shortest_paths[pair])
  /\ \A j \in 1..Len(paths) : DelayIsLinkSum(paths[j])
  /\ \A i \in 1..Len(results) : \A j \in 1..Len(results[i].paths) :
       DelayIsLinkSum(results[i].paths[j])
  /\ \A j \in 1..Len(baseline.paths) : DelayIsLinkSum(baseline.paths[j])

\* a finished run returned a backup path of three links with unequal delays
C18_Witness ==
  /\ pc = "done"
  /\ \E i \in 1..Len(results) :
       /\ Len(results[i].paths) = 2
       /\ LET p == results[i].paths[2]
          IN /\ Len(p.links) = 3
             /\ p.total_delay = 2 * MaxDelay + 1
             /\ \E a, b \in 1..3 :
                  get_link(topology, p.links[a][1], p.links[a][2]).delay
                    # get_link(topology, p.links[b][1], p.links[b][2]).delay

\* the canonical keys of the links of a path
KeysOf(path) == {LinkId(path.links[i][1], path.links[i][2]) : i \in 1..Len(path.links)}

\* C19: find_link_disjoint_paths returns at most k paths, each from the
\* source to the destination, no two of them with a common link by canonical
\* key, and verify_link_disjoint of the result is true
C19_DisjointFinder ==
  call.op = "find_link_disjoint_paths"
    => /\ Len(call.returned) <= call.k
       /\ \A i \in 1..Len(call.returned) :
            LET ns == call.returned[i].nodes
            IN Len(ns) >= 1 /\ ns[1] = call.source /\ ns[Len(ns)] = call.destination
       /\ \A i, j \in 1..Len(call.returned) :
            i # j => KeysOf(call.returned[i]) \cap KeysOf(call.returned[j]) = {}
       /\ call.verified

\* three disjoint paths were asked for and found, one of them over two hops,
\* in a topology that has an inactive link
C19_Witness ==
  /\ call.op = "find_link_disjoint_paths"
  /\ call.k = MaxPaths
  /\ Len(call.returned) = MaxPaths
  /\ call.weight_type = "weight"
  /\ Len(call.returned[1].links) = 2
  /\ call.verified
  /\ \E id \in DOMAIN topology.links : ~topology.links[id].is_active

\* the topology with every link's cost under weight_type in place of its
\* delay
CostTopology(t, weight_type) ==
  [nodes |-> t.nodes,
   links |-> [id \in DOMAIN t.links |->
                [delay |-> IF weight_type = "weight" THEN t.links[id].weight
                           ELSE IF weight_type = "hops" THEN 1
                           ELSE t.links[id].delay,
                 is_active |-> t.links[id].is_active]]]

\* t without the excluded links
WithoutLinks(t, excluded_links) ==
  [t EXCEPT !.links = [id \in DOMAIN t.links \ excluded_links |-> t.links[id]]]

\* C20: find_shortest_path returns None exactly when an endpoint is unknown
\* or the destination cannot be reached over active links that are not
\* excluded; a path it returns goes from source to destination over existing
\* links at the least cost under weight_type of all such paths, and for
\* source = destination it is the path [source] without links
C20_ShortestPath ==
  call.op = "find_shortest_path"
    => LET path == call.returned[1]
           costs == CostTopology(topology, call.weight_type)
           usable == WithoutLinks(costs, call.excluded_links)
           n == Len(path.nodes)
       IN /\ path = NoPath <=> ~Connected(usable, call.source, call.destination)
          /\ path # NoPath =>
               /\ n >= 1
               /\ path.nodes[1] = call.source
               /\ path.nodes[n] = call.destination
               /\ \A i \in 1..(n - 1) : has_link(topology, path.nodes[i], path.nodes[i + 1])
               /\ Len(path.links) = n - 1
               /\ RouteDelay(costs, path.nodes, 1) = MinDelay(usable, call.source, call.destination)
               /\ call.source = call.destination => (path.nodes = <<call.source>> /\ path.links = <<>>)

\* with the direct link excluded and a link inactive, the path of least
\* weight has three links
C20_Witness ==
  /\ call.op = "find_shortest_path"
  /\ call.weight_type = "weight"
  /\ call.excluded_links = {<<1, NumNodes>>}
  /\ has_link(topology, 1, NumNodes)
  /\ \E id \in DOMAIN topology.links : ~topology.links[id].is_active
  /\ call.returned[1] # NoPath
  /\ Len(call.returned[1].links) = 3

\* C21: a path find_shortest_path returns traverses no inactive link and no
\* link that an entry of excluded_links names, in whichever endpoint order
\* the entry is written
C21_SkipsExcluded ==
  (call.op = "find_shortest_path" /\ call.returned[1] # NoPath)
    => \A i \in 1..Len(call.returned[1].links) :
         LET link == call.returned[1].links[i]
         IN /\ has_link(topology, link[1], link[2])
            /\ get_link(topology, link[1], link[2]).is_active
            /\ \A e \in call.excluded_links : LinkId(e[1], e[2]) # LinkId(link[1], link[2])

\* C22: whatever weights a backup-path search draws, the clone Dijkstra runs
\* on holds no link of the demand's accepted paths, and each link it holds
\* has a weight in [r1, r2] if the link's usage count is below Ne_th and in
\* [r2, r3] otherwise
C22_BackupCloneWeights ==
  (pc = "backup" /\ BackupLoopRuns(k, config.K))
    => LET demand == sorted_demands[Len(results) + 1]
           excluded_links == ExcludedLinks(paths)
       IN \A w \in WeightDraws(BackupClone(topology, excluded_links), link_usage_count) :
            LET temp == find_backup_path_with_excluded_links(
                          topology, demand.source_id, demand.destination_id,
                          excluded_links, w).temp_topology
            IN /\ \A j \in 1..Len(paths) : KeysOf(paths[j]) \cap DOMAIN temp.links = {}
               /\ \A id \in DOMAIN temp.links :
                    LET weight == temp.links[id].weight
                    IN IF get_link_usage_count(link_usage_count, id[1], id[2]) < Ne_th
                       THEN config.r1 <= weight /\ weight <= config.r2
                       ELSE config.r2 <= weight /\ weight <= config.r3

\* the backup search of a second demand: a link outside its own paths was
\* used by the first demand, another was never used
C22_Witness ==
  /\ pc = "backup"
  /\ BackupLoopRuns(k, config.K)
  /\ Len(results) = 1
  /\ Len(paths) = 1
  /\ \E id \in DOMAIN topology.links \ KeysOf(paths[1]) :
       get_link_usage_count(link_usage_count, id[1], id[2]) >= Ne_th
  /\ \E id \in DOMAIN topology.links \ KeysOf(paths[1]) :
       get_link_usage_count(link_usage_count, id[1], id[2]) < Ne_th

\* a path has one link less than nodes, and every entry of its links is a
\* canonical key
WellFormedPath(p) ==
  /\ Len(p.nodes) >= 1
  /\ Len(p.links) = Len(p.nodes) - 1
  /\ Len(p.nodes) = 1 <=> p.nodes[1] = p.nodes[Len(p.nodes)]
  /\ \A i \in 1..Len(p.links) : p.links[i][1] <= p.links[i][2]

\* C23: every path of a shortest-path search, of a k-shortest search (SPF
\* and ECMP results) and of an LDMR run has |links| = |nodes| - 1, one node
\* exactly when source = destination, and canonical keys as its links
C23_CanonicalPathLinks ==
  /\ \A pair \in DOMAIN shortest_paths : WellFormedPath(shortest_paths[pair])
  /\ \A j \in 1..Len(paths) : WellFormedPath(paths[j])
  /\ \A i \in 1..Len(results) : \A j \in 1..Len(results[i].paths) :
       WellFormedPath(results[i].paths[j])
  /\ \A j \in 1..Len(baseline.paths) : WellFormedPath(baseline.paths[j])

\* C24: the first path find_k_shortest_paths returns is a shortest path
\* under the requested weight kind, the returned paths are in non-decreasing
\* order of their cost under that kind, and no two of them have the same
\* node sequence
C24_KShortestOrder ==
  call.op = "find_k_shortest_paths"
    => LET ps == call.returned
           costs == CostTopology(topology, call.weight_type)
       IN /\ ps # <<>> =>
               CostUnder(topology, ps[1], call.weight_type)
                 = MinDelay(costs, call.source, call.destination)
          /\ \A i, j \in 1..Len(ps) :
               i < j => /\ CostUnder(topology, ps[i], call.weight_type)
                           <= CostUnder(topology, ps[j], call.weight_type)
                        /\ ps[i].nodes # ps[j].nodes

\* C25: after any sequence of add_node (also with an id already present),
\* add_link and remove_link, b is in get_neighbors(a) exactly when a link
\* (a, b) exists, and both endpoints of every stored link are nodes
C25_NeighborsMatchLinks ==
  /\ \A a \in topology.nodes : \A b \in Endpoints :
       b \in get_neighbors(topology, a) <=> has_link(topology, a, b)
  /\ \A id \in DOMAIN topology.links : id[1] \in topology.nodes /\ id[2] \in topology.nodes

\* C26: get_snapshot_at_time(t) returns the one snapshot s with
\* s.timestamp <= t < s.timestamp + s.duration, and None if there is none
C26_SnapshotIntervals ==
  manager.time # -1
    => LET covering == {i \in 1..Len(manager.snapshots) :
                          /\ manager.snapshots[i].timestamp <= manager.time
                          /\ manager.time < manager.snapshots[i].timestamp
                                              + manager.snapshots[i].duration}
       IN /\ Cardinality(covering) <= 1
          /\ covering = {} => manager.found = None
          /\ \A i \in covering : manager.found = Some(manager.snapshots[i])

\* the usage counters the paths of the current run alone account for
ThisRunUsage ==
  [id \in AllLinkIds |->
     SeedTraversals(id)
     + SumOver([i \in 1..Len(results) |-> BackupTraversals(results[i].paths, id)],
               Len(results))
     + BackupTraversals(paths, id)]

\* C27: over any sequence of run_ldmr_algorithm calls on one instance, the
\* usage counters and the seed paths are empty when a run is entered, the
\* counters count the paths of the current run only, the weights a backup
\* search may draw are those the current run's paths alone give, and no
\* step writes the usage_count of a link of the topology
C27_CountersPerRun ==
  /\ [](/\ \A id \in AllLinkIds :
            get_link_usage_count(link_usage_count, id[1], id[2]) = ThisRunUsage[id]
        /\ pc = "backup" =>
             LET temp == BackupClone(topology, ExcludedLinks(paths))
             IN WeightDraws(temp, link_usage_count) = WeightDraws(temp, ThisRunUsage))
  /\ [][/\ (pc # "phase1" /\ pc' = "phase1")
             => (link_usage_count' = <<>> /\ shortest_paths' = <<>>)
         /\ \A id \in DOMAIN topology.links :
              /\ id \in DOMAIN topology'.links
              /\ topology'.links[id].usage_count = topology.links[id].usage_count]_vars

\* a second run has finished, and a link both runs routed over has count 1
C27_Witness ==
  /\ pc = "done"
  /\ Len(runs) = MaxRuns
  /\ \E id \in AllLinkIds :
       /\ get_link_usage_count(link_usage_count, id[1], id[2]) = 1
       /\ \A r \in 1..Len(runs) : \E i \in 1..Len(runs[r].results) :
            \E j \in 1..Len(runs[r].results[i].paths) :
              id \in CanonicalLinks(runs[r].results[i].paths[j])

\* the simple routes of t from a to b over active links, as node sequences
SimpleRoutes(t, a, b) ==
  {ns \in UNION {[1..n -> t.nodes] : n \in 2..Cardinality(t.nodes)} :
     /\ ns[1] = a
     /\ ns[Len(ns)] = b
     /\ \A i, j \in 1..Len(ns) : i # j => ns[i] # ns[j]
     /\ IsRoute(t, ns)}

RouteLinks(ns) == {LinkId(ns[i], ns[i + 1]) : i \in 1..(Len(ns) - 1)}

\* t has two routes from a to b that share no link
HasDisjointPair(t, a, b) ==
  /\ a \in t.nodes
  /\ b \in t.nodes
  /\ \E p, q \in SimpleRoutes(t, a, b) : RouteLinks(p) \cap RouteLinks(q) = {}

\* C28: with K = 2, a demand whose source and destination are joined by two
\* link-disjoint routes of the topology gets two paths from run_ldmr_algorithm
C28_DisjointPairFound ==
  \A i \in 1..Len(results) :
    \/ Len(results[i].paths) = 2
    \/ config.K # 2
    \/ ~HasDisjointPair(topology, results[i].source_id, results[i].destination_id)

\* no node occurs twice in path.nodes and no link is traversed twice
SimplePath(path) ==
  /\ \A i, j \in 1..Len(path.nodes) : i # j => path.nodes[i] # path.nodes[j]
  /\ \A i, j \in 1..Len(path.links) :
       i # j => LinkId(path.links[i][1], path.links[i][2])
                  # LinkId(path.links[j][1], path.links[j][2])

\* C29: every path find_k_shortest_paths returns is a simple path
C29_KShortestSimple ==
  call.op = "find_k_shortest_paths"
    => \A i \in 1..Len(call.returned) : SimplePath(call.returned[i])

\* C30: run_algorithm of SPF and of ECMP never raises and returns one result
\* per demand, for the empty demand list an empty result list
C30_RunnerNeverRaises ==
  runner.finished
    => /\ ~runner.raised
       /\ Len(runner.returned) = Len(runner.traffic_demands)

====
